---- MODULE Spec2Model ----
(***************************************************************************)
(* Model of pydm/data_plugins/__init__.py: the protocol -> plugin registry *)
(* (plugin_modules, add_plugin) and the plugin discovery scan              *)
(* (load_plugins_from_path).                                               *)
(*                                                                         *)
(* Strings are sequences of chunks, so that str.endswith, str.startswith   *)
(* and str.split are computed rather than assumed.  A path is a sequence   *)
(* of names; a trailing separator shows as a trailing empty name, as in    *)
(* "a/b/".split("/") = ["a", "b", ""].                                     *)
(***************************************************************************)
EXTENDS Integers, Sequences, FiniteSets, TLC

VARIABLES
    fs,              \* the content of every file under the search locations
    plugin_modules,  \* the global registry: protocol -> plugin class
    log,             \* the records handed to the module's logger
    sys_path,        \* sys.path, as far as this module appends to it
    pc,              \* "import" while the module body runs, "scan" inside
                     \* load_plugins_from_path, "idle" between calls,
                     \* "failed" when the import raised
    env_path,        \* the global path: os.getenv("PYDM_DATA_PLUGINS_PATH")
    startup_locations, \* the global locations the module body builds
    locations,       \* the locations not yet walked
    loc,             \* the location being walked
    token,           \* the token argument of the running call
    walk,            \* os.walk: the directories still to be yielded
    root,            \* the directory os.walk yielded last
    files,           \* the files of root not yet visited
    module,          \* the local variable module
    added_plugins,   \* the local dictionary the call returns
    result,          \* the value the last completed call returned
    outcome,         \* "none", "running", "returned" or "raised"
    before,          \* plugin_modules when the running or last call began
    uid,             \* the modules loaded so far; the next temp_name
    nregs,           \* the direct calls of add_plugin so far
    nscans,          \* the calls of load_plugins_from_path so far
    hist,            \* history: load attempts and add_plugin calls
    twin_modules,    \* plugin_modules of a second run of the same import
    twin_added,      \* added_plugins of the second run
    twin_module      \* the local variable module of the second run

twin_vars == <<twin_modules, twin_added, twin_module>>

vars == <<fs, plugin_modules, log, sys_path, pc, env_path, startup_locations,
          locations, loc, token, walk,
          root, files, module, added_plugins, result, outcome, before, uid,
          nregs, nscans, hist, twin_modules, twin_added, twin_module>>

----------------------------------------------------------------------------
(* Bounds of the model *)

MaxScans == 2

MaxRegs == 2

----------------------------------------------------------------------------
(* Values *)

None == "None"

Protocols == {"x", "y", "z"}

\* DATA_PLUGIN_TOKEN = "_plugin.py"
DATA_PLUGIN_TOKEN == <<"_plugin", ".py">>

\* the prefix tested by root.split(os.path.sep)[-1].startswith("__")
ReservedPrefix == <<"_", "_">>

\* The class PyDMPlugin itself, imported by every plugin file.
PyDMPlugin == [uid |-> 0, cname |-> "PyDMPlugin", kind |-> "base", protocol |-> None]

----------------------------------------------------------------------------
(* String and path primitives *)

\* str.endswith
endswith(s, suffix) ==
    /\ Len(suffix) <= Len(s)
    /\ SubSeq(s, Len(s) - Len(suffix) + 1, Len(s)) = suffix

\* str.startswith
startswith(s, prefix) ==
    /\ Len(prefix) <= Len(s)
    /\ SubSeq(s, 1, Len(prefix)) = prefix

\* root.split(os.path.sep)[-1]
basename(path) == path[Len(path)]

\* the directory a path string denotes: a trailing separator is ignored
normpath(path) ==
    IF Len(path) > 1 /\ path[Len(path)] = <<>>
    THEN SubSeq(path, 1, Len(path) - 1) ELSE path

\* os.path.join(root, name)
join(path, name) == Append(normpath(path), name)

----------------------------------------------------------------------------
(* The file system under the search locations *)

PluginDir == <<"plugins">>

InternalDir == <<"_", "_", "int">>

SubDir == <<"sub">>

SiteDir == <<"_", "_", "site">>

ExtDir == <<"ext">>

FileA == <<"a", "_plugin", ".py">>

FileB == <<"b", "_plugin", ".py">>

FileC == <<"c", "_ext", ".py">>

FileH == <<"h", "_plugin", ".py">>

FileS == <<"s", "_plugin", ".py">>

FileU == <<"u", "_plugin", ".py">>

\* directories, each with its subdirectories and its files
Tree ==
    ( <<PluginDir>>                       :> [dirs |-> {InternalDir}, files |-> {FileA, FileB}] ) @@
    ( <<PluginDir, InternalDir>>          :> [dirs |-> {SubDir},      files |-> {FileH}] ) @@
    ( <<PluginDir, InternalDir, SubDir>>  :> [dirs |-> {},            files |-> {FileS}] ) @@
    ( <<SiteDir>>                         :> [dirs |-> {ExtDir},      files |-> {FileU}] ) @@
    ( <<SiteDir, ExtDir>>                 :> [dirs |-> {},            files |-> {FileC}] )

\* a member of a module's namespace: a plugin class defined in the file
Cls(mname, cname, protocol) ==
    [mname |-> mname, cname |-> cname, kind |-> "plugin", protocol |-> protocol]

\* the imported base class
BaseMember == [mname |-> "PyDMPlugin", cname |-> "PyDMPlugin", kind |-> "base", protocol |-> None]

\* a class that is not a PyDMPlugin subclass
OtherMember == [mname |-> "Helper", cname |-> "Helper", kind |-> "class", protocol |-> None]

Broken == [ok |-> FALSE, members |-> {}]

Source(members) == [ok |-> TRUE, members |-> members \cup {BaseMember}]

\* what a candidate file may contain
Contents ==
    { Broken,
      Source({OtherMember}),
      Source({Cls("A", "A", "x")}),
      Source({Cls("A", "A", "y")}),
      Source({Cls("A", "A", None)}),
      Source({Cls("A", "A", "x"), Cls("B", "B", "y")}),
      Source({Cls("A", "A", None), Cls("B", "B", "x")}),
      Source({Cls("A", "A", "x"), Cls("Z", "A", "x")}) }

\* what the second candidate file of the plugin directory may contain
ContentsB ==
    { Broken,
      Source({Cls("A", "A", "x")}),
      Source({Cls("A", "A", "y")}) }

FixedFiles ==
    ( <<SiteDir, ExtDir, FileC>>                :> Source({Cls("C", "C", "z")}) ) @@
    ( <<PluginDir, InternalDir, FileH>>         :> Source({Cls("H", "H", "z")}) ) @@
    ( <<PluginDir, InternalDir, SubDir, FileS>> :> Source({Cls("S", "S", "z")}) ) @@
    ( <<SiteDir, FileU>>                        :> Source({Cls("U", "U", "z")}) )

\* the location lists a caller passes
LocationLists ==
    { << <<PluginDir>>, <<SiteDir, <<>> >> >>,
      << <<SiteDir>> >> }

Tokens == { DATA_PLUGIN_TOKEN, <<".py">> }

\* the arguments of the later calls of load_plugins_from_path
Calls ==
    { [locations |-> << <<PluginDir>>, <<SiteDir, <<>> >> >>, token |-> DATA_PLUGIN_TOKEN],
      [locations |-> << <<SiteDir>> >>, token |-> <<".py">>] }

\* os.pathsep, as a chunk of the environment setting
PathSep == << <<":">> >>

\* os.getenv("PYDM_DATA_PLUGINS_PATH", None): unset, or a string of location
\* chunks and separators
Unset == [set |-> FALSE, value |-> <<>>]

Setting(value) == [set |-> TRUE, value |-> value]

Environments ==
    { Unset,
      Setting(<< <<SiteDir, <<>> >> >>),
      Setting(<< <<SiteDir, <<>> >>, PathSep, <<PluginDir, InternalDir, SubDir>> >>) }

\* the value None where an object is expected
NoneObj == [uid |-> 0, cname |-> "None", kind |-> "none", protocol |-> None]

\* plugin classes a caller of add_plugin holds besides the registered ones
ExternalPlugins ==
    { [uid |-> 0, cname |-> "E", kind |-> "plugin", protocol |-> "x"] }

----------------------------------------------------------------------------
(* The module body: lines 106-117 *)

\* the index of the first separator of s, or 0
find(s, sep) ==
    IF \E k \in DOMAIN s : s[k] = sep
    THEN CHOOSE k \in DOMAIN s : s[k] = sep /\ \A j \in 1..(k - 1) : s[j] # sep
    ELSE 0

RECURSIVE split(_, _)
\* str.split(sep): the pieces between the separators, empty ones included
split(s, sep) ==
    IF find(s, sep) = 0 THEN <<s>>
    ELSE <<SubSeq(s, 1, find(s, sep) - 1)>> \o split(SubSeq(s, find(s, sep) + 1, Len(s)), sep)

\* the location a piece of the setting names; a piece holds one chunk or is
\* the empty string
text(piece) == IF piece = <<>> THEN <<>> ELSE piece[1]

\* locations = [] or path.split(os.pathsep)
configured(env) ==
    IF ~env.set THEN <<>>
    ELSE [i \in DOMAIN split(env.value, PathSep) |-> text(split(env.value, PathSep)[i])]

\* os.path.dirname(os.path.realpath(__file__))
plugin_dir == <<PluginDir>>

\* locations.append(plugin_dir) in place of line 115
insert_last(locs, dir) == Append(locs, dir)

\* locations.insert(0, plugin_dir)
insert_first(locs, dir) == <<dir>> \o locs

----------------------------------------------------------------------------
(* Dictionaries *)

\* d[k] = v
DictSet(d, k, v) == [kk \in DOMAIN d \cup {k} |-> IF kk = k THEN v ELSE d[kk]]

\* d.get(k)
DictGet(d, k) == IF k \in DOMAIN d THEN d[k] ELSE NoneObj

EmptyDict == [k \in {} |-> NoneObj]

Range(s) == {s[i] : i \in DOMAIN s}

----------------------------------------------------------------------------
(* add_plugin *)

\* logger.warning("Replacing %s plugin with %s for use with protocol %s", ...)
ReplaceWarning(plugin, registry) ==
    [level |-> "warning", event |-> "replacing",
     args |-> <<plugin, registry[plugin.protocol], plugin.protocol>>]

\* if plugin.protocol in plugin_modules
overwriting(plugin, registry) == plugin.protocol \in DOMAIN registry

\* the log after add_plugin(plugin)
add_plugin_log(plugin, registry, lg) ==
    IF overwriting(plugin, registry)
    THEN Append(lg, ReplaceWarning(plugin, registry))
    ELSE lg

\* add_plugin as plugin_modules.setdefault(plugin.protocol, plugin)
add_plugin_setdefault(plugin, registry) ==
    IF plugin.protocol \in DOMAIN registry THEN registry
    ELSE DictSet(registry, plugin.protocol, plugin)

\* add_plugin that drops the entry it replaces and stores only a new protocol
add_plugin_drop(plugin, registry) ==
    IF plugin.protocol \in DOMAIN registry
    THEN [k \in DOMAIN registry \ {plugin.protocol} |-> registry[k]]
    ELSE DictSet(registry, plugin.protocol, plugin)

\* add_plugin as plugin_modules = {plugin.protocol: plugin}
add_plugin_rebind(plugin, registry) == DictSet(EmptyDict, plugin.protocol, plugin)

\* the registry after add_plugin(plugin)
add_plugin(plugin, registry) == DictSet(registry, plugin.protocol, plugin)

----------------------------------------------------------------------------
(* Loading a file and inspecting the module *)

\* the local variable module before its first assignment
UnboundModule == [bound |-> FALSE, uid |-> 0, members |-> {}, first |-> NoneObj]

\* the object a member name is bound to in the module loaded as temp_name
Object(member, temp_name) ==
    IF member.kind = "base" THEN PyDMPlugin
    ELSE [uid |-> temp_name, cname |-> member.cname, kind |-> member.kind,
          protocol |-> member.protocol]

\* inspect.isclass(obj)
isclass(obj) == obj.kind \in {"plugin", "base", "class"}

\* issubclass(obj, PyDMPlugin)
issubclass_PyDMPlugin(obj) == obj.kind \in {"plugin", "base"}

\* [obj for name, obj in inspect.getmembers(module) if ...], then set(...)
classes(mod) ==
    { m.obj : m \in { mm \in mod.members :
                        /\ isclass(mm.obj)
                        /\ issubclass_PyDMPlugin(mm.obj)
                        /\ mm.obj # PyDMPlugin } }

\* the members of the module imp.load_source(temp_name, path) creates
Members(path, temp_name) ==
    { [mname |-> m.mname, obj |-> Object(m, temp_name)] : m \in fs[path].members }

\* classes[0] of list(set(classes)): a set of classes iterates in the order
\* of the hashes of the class objects, which are their addresses
FirstOfSet(cs) == IF cs = {} THEN {NoneObj} ELSE cs

\* the modules imp.load_source(temp_name, path) can return
load_source(path, temp_name) ==
    LET mod == [bound |-> TRUE, uid |-> temp_name,
                members |-> Members(path, temp_name), first |-> NoneObj]
    IN  { [mod EXCEPT !.first = c] : c \in FirstOfSet(classes(mod)) }

----------------------------------------------------------------------------
(* Log events of load_plugins_from_path *)

LookingInfo(r) == [level |-> "info", event |-> "looking", args |-> <<r>>]

TryingInfo(name) == [level |-> "info", event |-> "trying", args |-> <<name>>]

ImportException(name) == [level |-> "exception", event |-> "unable to import", args |-> <<name>>]

MultiClassWarning(name, cname) ==
    [level |-> "warning", event |-> "more than one subclass", args |-> <<name, cname>>]

ConflictWarning(protocol) ==
    [level |-> "warning", event |-> "more than one plugin", args |-> <<protocol>>]

----------------------------------------------------------------------------
(* The conditions of load_plugins_from_path *)

\* if root.split(os.path.sep)[-1].startswith("__"): continue
skipped(r) == startswith(basename(r), ReservedPrefix)

\* if name.endswith(DATA_PLUGIN_TOKEN)
is_candidate(name, tok) == endswith(name, DATA_PLUGIN_TOKEN)

\* line 87 without its test
installable_always(plugin) == plugin.kind = "plugin"

\* if plugin.protocol is not None
installable(plugin) == plugin.protocol # None

\* if plugin_modules.get(plugin.protocol) != plugin
conflicting(plugin, registry) == DictGet(registry, plugin.protocol) # plugin

\* line 97 with added_plugins bound to the registry itself
record_added_alias(plugin, added) == add_plugin(plugin, plugin_modules)

\* sys.path.insert(0, root) in place of line 64
path_insert(sp, r) == <<r>> \o sp

\* sys.path.append(root)
path_append(sp, r) == Append(sp, r)

\* added_plugins[plugin.protocol] = plugin
record_added(plugin, added) == DictSet(added, plugin.protocol, plugin)

----------------------------------------------------------------------------
(* History records *)

\* imp.load_source was called for path; ok: it returned a module, whose
\* classes[0] is plugin
LoadEvent(path, ok, mod) ==
    [ev |-> "load", scan |-> nscans, loc |-> loc, path |-> path, ok |-> ok,
     plugin |-> IF ok THEN mod.first ELSE NoneObj]

\* add_plugin(plugin) was called, by the scan while at path or directly
AddEvent(path, plugin) ==
    [ev |-> "add_plugin", scan |-> IF pc = "scan" THEN nscans ELSE 0,
     loc |-> loc, path |-> path, ok |-> TRUE, plugin |-> plugin]

----------------------------------------------------------------------------
(* Initial state: the module's globals before any call *)

FileSystems ==
    { ( <<PluginDir, FileA>> :> a ) @@ ( <<PluginDir, FileB>> :> b ) @@ FixedFiles :
        a \in Contents, b \in ContentsB }

Init ==
    /\ fs \in FileSystems
    /\ plugin_modules = EmptyDict
    /\ log = <<>>
    /\ sys_path = <<>>
    /\ pc = "import"
    /\ env_path = Unset
    /\ startup_locations = <<>>
    /\ locations = <<>>
    /\ loc = <<>>
    /\ token = DATA_PLUGIN_TOKEN
    /\ walk = <<>>
    /\ root = <<>>
    /\ files = {}
    /\ module = UnboundModule
    /\ added_plugins = EmptyDict
    /\ result = EmptyDict
    /\ outcome = "none"
    /\ before = EmptyDict
    /\ uid = 0
    /\ nregs = 0
    /\ nscans = 0
    /\ hist = <<>>
    /\ twin_modules = EmptyDict
    /\ twin_added = EmptyDict
    /\ twin_module = UnboundModule

----------------------------------------------------------------------------
(* load_plugins_from_path *)

\* the call: added_plugins = dict(), module not yet assigned
Call(locs, tok) ==
    /\ pc' = "scan"
    /\ nscans' = nscans + 1
    /\ locations' = locs
    /\ loc' = <<>>
    /\ token' = tok
    /\ walk' = <<>>
    /\ root' = <<>>
    /\ files' = {}
    /\ module' = UnboundModule
    /\ added_plugins' = EmptyDict
    /\ outcome' = "running"
    /\ before' = plugin_modules
    /\ UNCHANGED <<fs, plugin_modules, log, sys_path, result, uid, nregs, hist>>

\* the module body, run by the import: it reads the setting, puts the
\* built-in directory first and scans
Startup(env) ==
    /\ pc = "import"
    /\ env_path' = env
    /\ startup_locations' = insert_first(configured(env), plugin_dir)
    /\ Call(insert_first(configured(env), plugin_dir), DATA_PLUGIN_TOKEN)
    /\ UNCHANGED twin_vars

\* a later call of load_plugins_from_path
Scan(locs, tok) ==
    /\ pc = "idle"
    /\ nscans < MaxScans
    /\ Call(locs, tok)
    /\ UNCHANGED <<env_path, startup_locations>>
    /\ UNCHANGED twin_vars

\* for loc in locations: os.walk(loc) starts at loc, if it is a directory
NextLocation ==
    /\ pc = "scan"
    /\ files = {}
    /\ walk = <<>>
    /\ locations # <<>>
    /\ walk' = IF normpath(Head(locations)) \in DOMAIN Tree
               THEN <<Head(locations)>> ELSE <<>>
    /\ locations' = Tail(locations)
    /\ loc' = Head(locations)
    /\ UNCHANGED <<fs, plugin_modules, log, sys_path, pc, env_path,
                   startup_locations, token, root, files,
                   module, added_plugins, result, outcome, before, uid, nregs,
                   nscans, hist>>
    /\ UNCHANGED twin_vars

\* the sequences that list the elements of S once each
Orders(S) ==
    { q \in [1..Cardinality(S) -> S] : \A e \in S : \E i \in DOMAIN q : q[i] = e }

\* for root, _, files in os.walk(loc): the walk yields a directory and goes
\* on into each of its subdirectories, whatever the loop body does
WalkStep ==
    /\ pc = "scan"
    /\ files = {}
    /\ walk # <<>>
    /\ LET r == Head(walk)
           d == Tree[normpath(r)]
       IN  /\ \E order \in Orders(d.dirs) :
                 walk' = [i \in DOMAIN order |-> join(r, order[i])] \o Tail(walk)
           /\ root' = r
           /\ IF skipped(r)
              THEN /\ files' = {}
                   /\ log' = log
              ELSE /\ files' = d.files
                   /\ log' = Append(log, LookingInfo(r))
    /\ UNCHANGED <<fs, plugin_modules, sys_path, pc, env_path, startup_locations,
                   locations, loc, token, module,
                   added_plugins, result, outcome, before, uid, nregs, nscans,
                   hist>>
    /\ UNCHANGED twin_vars

\* lines 73-97 for the module mod, on a registry and a result dictionary:
\* what is logged, registered and added
ProcessOn(name, mod, lg, registry, added) ==
    LET cs       == classes(mod)
        plugin   == mod.first
        lg1      == IF Cardinality(cs) > 1
                    THEN Append(lg, MultiClassWarning(name, plugin.cname))
                    ELSE lg
        lg2      == IF conflicting(plugin, registry)
                    THEN Append(lg1, ConflictWarning(plugin.protocol))
                    ELSE lg1
    IN  IF Cardinality(cs) = 0
        THEN [log |-> lg, registry |-> registry, added |-> added,
              called |-> FALSE]
        ELSE IF ~installable(plugin)
        THEN [log |-> lg1, registry |-> registry, added |-> added,
              called |-> FALSE]
        ELSE [log |-> add_plugin_log(plugin, registry, lg2),
              registry |-> add_plugin(plugin, registry),
              added |-> record_added(plugin, added),
              called |-> TRUE]

\* lines 73-97 on the globals and locals of the call
Process(name, mod, lg) == ProcessOn(name, mod, lg, plugin_modules, added_plugins)

\* one iteration of "for name in files"
VisitFileStep ==
    /\ pc = "scan"
    /\ files # {}
    /\ \E name \in files :
         /\ files' = files \ {name}
         /\ IF ~is_candidate(name, token)
            THEN UNCHANGED <<plugin_modules, log, sys_path, pc, locations, walk,
                             module, added_plugins, outcome, uid, hist>>
            ELSE LET path == join(root, name)
                     lg   == Append(log, TryingInfo(name))
                 IN  /\ sys_path' = path_append(sys_path, root)
                     /\ uid' = uid + 1
                     /\ \E mod \in (IF fs[path].ok THEN load_source(path, uid + 1)
                                                  ELSE {module}) :
                          LET lg1 == IF fs[path].ok THEN lg
                                     ELSE Append(lg, ImportException(name))
                              h1  == Append(hist, LoadEvent(path, fs[path].ok, mod))
                          IN  IF ~mod.bound
                              THEN \* line 73 reads module before assignment;
                                   \* raised by the module body, the import fails
                                   /\ pc' = IF nscans = 1 THEN "failed" ELSE "idle"
                                   /\ outcome' = "raised"
                                   /\ log' = lg1
                                   /\ hist' = h1
                                   /\ module' = mod
                                   /\ locations' = <<>>
                                   /\ walk' = <<>>
                                   /\ UNCHANGED <<plugin_modules, added_plugins>>
                              ELSE LET p == Process(name, mod, lg1)
                                   IN  /\ module' = mod
                                       /\ log' = p.log
                                       /\ plugin_modules' = p.registry
                                       /\ added_plugins' = p.added
                                       /\ hist' = IF p.called
                                                  THEN Append(h1, AddEvent(path, mod.first))
                                                  ELSE h1
                                       /\ UNCHANGED <<pc, locations, walk, outcome>>
    /\ UNCHANGED <<fs, env_path, startup_locations, loc, token, root, result,
                   before, nregs, nscans>>

VisitFile == VisitFileStep /\ UNCHANGED twin_vars

\* the same iteration in the second run: the same file with the same
\* content, its classes at addresses of their own
TwinVisit ==
    \E name \in files \ files' :
       IF ~is_candidate(name, token)
       THEN UNCHANGED twin_vars
       ELSE LET path == join(root, name)
            IN  \E mod \in (IF fs[path].ok THEN load_source(path, uid + 1)
                                           ELSE {twin_module}) :
                   /\ twin_module' = mod
                   /\ IF ~mod.bound
                      THEN UNCHANGED <<twin_modules, twin_added>>
                      ELSE LET p == ProcessOn(name, mod, <<>>, twin_modules, twin_added)
                           IN  /\ twin_modules' = p.registry
                               /\ twin_added' = p.added

\* the iteration in both runs
TwinVisitFile == VisitFileStep /\ TwinVisit

\* return added_plugins
Return ==
    /\ pc = "scan"
    /\ files = {}
    /\ walk = <<>>
    /\ locations = <<>>
    /\ pc' = "idle"
    /\ result' = added_plugins
    /\ outcome' = "returned"
    /\ UNCHANGED <<fs, plugin_modules, log, sys_path, env_path, startup_locations,
                   locations, loc, token, walk,
                   root, files, module, added_plugins, before, uid, nregs,
                   nscans, hist>>
    /\ UNCHANGED twin_vars

----------------------------------------------------------------------------
(* A direct call of add_plugin *)

Register(plugin) ==
    /\ pc = "idle"
    /\ nregs < MaxRegs
    /\ nregs' = nregs + 1
    /\ plugin_modules' = add_plugin(plugin, plugin_modules)
    /\ log' = add_plugin_log(plugin, plugin_modules, log)
    /\ hist' = Append(hist, AddEvent(<<>>, plugin))
    /\ UNCHANGED <<fs, sys_path, pc, env_path, startup_locations, locations, loc,
                   token, walk, root, files,
                   module, added_plugins, result, outcome, before, uid, nscans>>
    /\ UNCHANGED twin_vars

----------------------------------------------------------------------------

Next ==
    \/ \E env \in Environments : Startup(env)
    \/ \E c \in Calls : Scan(c.locations, c.token)
    \/ NextLocation
    \/ WalkStep
    \/ VisitFile
    \/ Return
    \/ \E plugin \in ExternalPlugins \cup Range(plugin_modules) : Register(plugin)

Spec == Init /\ [][Next]_vars

\* two runs of the import side by side: the same setting, the same files,
\* the same order of visits
TwinNext ==
    \/ \E env \in Environments : Startup(env)
    \/ NextLocation
    \/ WalkStep
    \/ TwinVisitFile
    \/ Return

SpecTwin == Init /\ [][TwinNext]_vars

----------------------------------------------------------------------------
(* Observers used by the properties *)

\* line 98 is reached: the loops are over and added_plugins is returned next
AtReturn == pc = "scan" /\ files = {} /\ walk = <<>> /\ locations = <<>>

AddEvents == { i \in DOMAIN hist : hist[i].ev = "add_plugin" }

LoadEvents == { i \in DOMAIN hist : hist[i].ev = "load" }

\* the successful loads of the running (or last) call
LoadedNow == { i \in LoadEvents : hist[i].scan = nscans /\ hist[i].ok }

\* the add_plugin calls of the running (or last) call
AddedNow == { i \in AddEvents : hist[i].scan = nscans /\ nscans > 0 }

AddsFor(p) == { i \in AddEvents : hist[i].plugin.protocol = p }

LastAddFor(p) == CHOOSE i \in AddsFor(p) : \A j \in AddsFor(p) : j <= i

\* the names of the distinct PyDMPlugin subclasses the file at path defines
ClassNames(path) == { m.cname : m \in { mm \in fs[path].members : mm.kind = "plugin" } }

\* the file lies below a directory with the reserved prefix that the walk of
\* its location had to enter
BelowReserved(e) ==
    \E k \in (Len(normpath(e.loc)) + 1) .. (Len(e.path) - 1) :
        startswith(e.path[k], ReservedPrefix)

\* the order of the class names in use
Alphabet == <<"A", "B", "C", "E", "H", "S", "U">>

ord(c) == CHOOSE i \in DOMAIN Alphabet : Alphabet[i] = c

\* the step called add_plugin with the very plugin its protocol maps to
ReRegistered ==
    /\ Len(hist') > Len(hist)
    /\ LET e == hist'[Len(hist')]
       IN  /\ e.ev = "add_plugin"
           /\ e.plugin.protocol \in DOMAIN plugin_modules
           /\ plugin_modules[e.plugin.protocol] = e.plugin

\* the warnings about a conflict on protocol p, of the scan and of add_plugin
ConflictWarningsFor(p) ==
    { i \in DOMAIN log :
        \/ log[i].event = "more than one plugin" /\ log[i].args[1] = p
        \/ log[i].event = "replacing" /\ log[i].args[3] = p }

----------------------------------------------------------------------------
(* Properties *)

\* C1: a scan never raises, whichever candidate files fail to load, and the
\* mapping it returns has the protocol of every file that loaded with a
\* chosen class whose protocol is not None.
C1_ScanNeverRaises ==
    /\ outcome # "raised"
    /\ AtReturn =>
         \A i \in LoadedNow :
            hist[i].plugin.protocol # None =>
               hist[i].plugin.protocol \in DOMAIN added_plugins

\* C2: no load is attempted for a file below a directory whose name starts
\* with the reserved prefix, at any depth below it.
C2_ReservedNotDescended ==
    \A i \in LoadEvents : ~BelowReserved(hist[i])

\* C3: of the two or more classes of one file the scan chooses the one whose
\* name is smallest, and registers no other class of the file.
C3_FirstByName ==
    /\ \A i \in LoadEvents :
          (hist[i].ok /\ Cardinality(ClassNames(hist[i].path)) >= 2) =>
             \A c \in ClassNames(hist[i].path) : ord(hist[i].plugin.cname) <= ord(c)
    /\ \A i \in AddEvents :
          (hist[i].scan > 0 /\ Cardinality(ClassNames(hist[i].path)) >= 2) =>
             \A c \in ClassNames(hist[i].path) : ord(hist[i].plugin.cname) <= ord(c)

\* C4: the registry maps every protocol that was ever registered to the
\* plugin of the latest add_plugin call for that protocol, and has no other
\* key; so the file visited later wins.
C4_LastRegistrationWins ==
    /\ DOMAIN plugin_modules = { hist[i].plugin.protocol : i \in AddEvents }
    /\ \A p \in DOMAIN plugin_modules :
          plugin_modules[p] = hist[LastAddFor(p)].plugin

\* C4 witness: two files of one scan registered different plugins for one
\* protocol and the registry holds the plugin of the second.
C4_Witness ==
    \E i, j \in AddedNow :
       /\ i < j
       /\ hist[i].path # hist[j].path
       /\ hist[i].plugin # hist[j].plugin
       /\ hist[i].plugin.protocol = hist[j].plugin.protocol
       /\ j = LastAddFor(hist[j].plugin.protocol)
       /\ plugin_modules[hist[j].plugin.protocol] = hist[j].plugin

\* C5: in the first scan, from the empty registry, no conflict warning is
\* logged for the first registration of a protocol; and when exactly two
\* files, of one class each, register different plugins for a protocol, the
\* scan and add_plugin together log exactly one conflict warning for it.
C5_OneConflictWarning ==
    \A p \in Protocols :
       /\ ( /\ pc = "scan"
            /\ nscans = 1
            /\ nregs = 0
            /\ before = EmptyDict
            /\ Cardinality(AddsFor(p)) = 1 )
          => ConflictWarningsFor(p) = {}
       /\ ( /\ AtReturn
            /\ nscans = 1
            /\ nregs = 0
            /\ before = EmptyDict
            /\ \A i \in LoadEvents : hist[i].ok
            /\ Cardinality({ i \in LoadedNow : hist[i].plugin.protocol = p }) = 2
            /\ \A i \in LoadedNow :
                  hist[i].plugin.protocol = p => Cardinality(ClassNames(hist[i].path)) = 1 )
          => Cardinality(ConflictWarningsFor(p)) = 1

\* C6: a call of add_plugin with the plugin that the registry already maps
\* its protocol to leaves the whole registry as it was.
C6_ReRegisterKeepsRegistry ==
    [][ ReRegistered => plugin_modules' = plugin_modules ]_vars

\* C6 witness: the last call of add_plugin passed the plugin that the call
\* before it for the same protocol had passed, with another protocol present.
C6_Witness ==
    /\ hist # <<>>
    /\ hist[Len(hist)].ev = "add_plugin"
    /\ \E i \in AddEvents :
          /\ i < Len(hist)
          /\ hist[i].plugin = hist[Len(hist)].plugin
          /\ \A j \in AddsFor(hist[i].plugin.protocol) : j <= i \/ j = Len(hist)
    /\ Cardinality(DOMAIN plugin_modules) >= 2

\* C7: a direct call of add_plugin with the plugin already stored for its
\* protocol logs nothing.
C7_ReRegisterLogsNothing ==
    [][ (pc = "idle" /\ ReRegistered) => log' = log ]_vars

\* C8: None is never a key of the registry, no stored plugin has protocol
\* None, and add_plugin is never called with such a plugin.
C8_NoNullProtocol ==
    /\ \A p \in DOMAIN plugin_modules : p # None /\ plugin_modules[p].protocol # None
    /\ \A i \in AddEvents : hist[i].plugin.protocol # None

\* C8 witness: a scan loaded a file whose chosen class has protocol None and
\* went on to its end.
C8_Witness ==
    /\ AtReturn
    /\ \E i \in LoadedNow : hist[i].plugin.kind = "plugin" /\ hist[i].plugin.protocol = None

\* C9: when two files of one directory load, define one class each, for
\* different protocols that no other file of the scan registers, the registry
\* at the end of the scan maps each protocol to the class of its file.
C9_BothRegistered ==
    AtReturn =>
      \A i, j \in LoadedNow :
         ( /\ hist[i].path # hist[j].path
           /\ SubSeq(hist[i].path, 1, Len(hist[i].path) - 1)
                 = SubSeq(hist[j].path, 1, Len(hist[j].path) - 1)
           /\ Cardinality(ClassNames(hist[i].path)) = 1
           /\ Cardinality(ClassNames(hist[j].path)) = 1
           /\ hist[i].plugin.protocol # None
           /\ hist[j].plugin.protocol # None
           /\ hist[i].plugin.protocol # hist[j].plugin.protocol
           /\ \A k \in AddedNow :
                 hist[k].plugin.protocol \in {hist[i].plugin.protocol, hist[j].plugin.protocol}
                    => hist[k].path \in {hist[i].path, hist[j].path} )
         => /\ hist[i].plugin.protocol \in DOMAIN plugin_modules
            /\ hist[j].plugin.protocol \in DOMAIN plugin_modules
            /\ plugin_modules[hist[i].plugin.protocol] = hist[i].plugin
            /\ plugin_modules[hist[j].plugin.protocol] = hist[j].plugin

\* C9 witness: the scan ends after it loaded b_plugin.py for one protocol and
\* then a_plugin.py for another, both in the registry.
C9_Witness ==
    /\ AtReturn
    /\ \E i, j \in LoadedNow :
          /\ i < j
          /\ hist[i].path = <<PluginDir, FileB>>
          /\ hist[j].path = <<PluginDir, FileA>>
          /\ Cardinality(ClassNames(hist[j].path)) = 1
          /\ hist[i].plugin.protocol = "y"
          /\ hist[j].plugin.protocol = "x"
          /\ plugin_modules["y"] = hist[i].plugin
          /\ plugin_modules["x"] = hist[j].plugin

\* C10: the mapping a scan returns has exactly the protocols registered
\* during the call, each mapped as the registry maps it at the return.
C10_ResultIsWhatWasRegistered ==
    AtReturn =>
      /\ DOMAIN added_plugins = { hist[i].plugin.protocol : i \in AddedNow }
      /\ \A p \in DOMAIN added_plugins :
            p \in DOMAIN plugin_modules /\ plugin_modules[p] = added_plugins[p]
      /\ \A p \in DOMAIN before :
            p \notin { hist[i].plugin.protocol : i \in AddedNow } => p \notin DOMAIN added_plugins

\* C10 witness: the scan ends with a non-empty result while the registry
\* holds a protocol from before the call that the result leaves out.
C10_Witness ==
    /\ AtReturn
    /\ added_plugins # EmptyDict
    /\ \E p \in DOMAIN before : p \notin DOMAIN added_plugins /\ p \in DOMAIN plugin_modules

----------------------------------------------------------------------------
(* Further observers *)

\* the directory of a file path
dirname(path) == SubSeq(path, 1, Len(path) - 1)

\* the place of a location in the list the module body built
PlaceOf(l) == CHOOSE k \in DOMAIN startup_locations : startup_locations[k] = l

\* the load attempts of the scan the module body makes
StartupLoads == { i \in LoadEvents : hist[i].scan = 1 }

\* the chunks of the setting that are locations
SettingChunks == { k \in DOMAIN env_path.value : env_path.value[k] # PathSep }

\* the step attempted a load that failed
FailedLoadStep ==
    /\ Len(hist') > Len(hist)
    /\ hist'[Len(hist) + 1].ev = "load"
    /\ ~hist'[Len(hist) + 1].ok

\* the step called add_plugin for a protocol mapped to another plugin
ReplacedStep ==
    /\ Len(hist') > Len(hist)
    /\ LET e == hist'[Len(hist')]
       IN  /\ e.ev = "add_plugin"
           /\ e.plugin.protocol \in DOMAIN plugin_modules
           /\ plugin_modules[e.plugin.protocol] # e.plugin

----------------------------------------------------------------------------
(* Properties of the later claims *)

\* C11: a visited file is loaded if and only if its name ends with the token
\* that was passed to the call.
C11_TokenDecidesCandidates ==
    [][ pc = "scan" =>
          \A name \in files \ files' : endswith(name, token) <=> uid' = uid + 1 ]_vars

\* C12: the module body puts the built-in directory first and the locations
\* of the setting after it in their order; without the setting the list is
\* the built-in directory alone; and the loads of its scan follow that order.
C12_BuiltinFirst ==
    pc # "import" =>
      /\ startup_locations[1] = plugin_dir
      /\ ~env_path.set => startup_locations = <<plugin_dir>>
      /\ Len(startup_locations) = 1 + Cardinality(SettingChunks)
      /\ \A m, n \in 2..Len(startup_locations) :
            m < n => \E a, b \in SettingChunks :
                        /\ a < b
                        /\ env_path.value[a] = startup_locations[m]
                        /\ env_path.value[b] = startup_locations[n]
      /\ \A m \in 2..Len(startup_locations) :
            \E a \in SettingChunks : env_path.value[a] = startup_locations[m]
      /\ \A i, j \in StartupLoads :
            PlaceOf(hist[i].loc) < PlaceOf(hist[j].loc) => i < j

\* C12 witness: the import ended after loads from the built-in directory and
\* from two configured locations.
C12_Witness ==
    /\ pc = "idle"
    /\ nscans = 1
    /\ Len(startup_locations) = 3
    /\ \A k \in 1..3 : \E i \in StartupLoads : hist[i].loc = startup_locations[k]

\* C13: a step in which a load fails calls add_plugin for nothing, leaves the
\* registry alone and logs the attempt and the failure only.
C13_FailedFileSkipped ==
    [][ FailedLoadStep =>
          /\ Len(hist') = Len(hist) + 1
          /\ plugin_modules' = plugin_modules
          /\ \E name \in files \ files' :
                log' = Append(Append(log, TryingInfo(name)), ImportException(name)) ]_vars

\* C14: the warning of an overwrite names the plugin stored so far as the
\* replaced one, the new plugin as its replacement, and the protocol.
C14_WarningNamesReplaced ==
    [][ ReplacedStep =>
          LET e == hist'[Len(hist')]
          IN  /\ Len(log') > Len(log)
              /\ log'[Len(log')].event = "replacing"
              /\ log'[Len(log')].args =
                    <<plugin_modules[e.plugin.protocol], e.plugin, e.plugin.protocol>> ]_vars

\* C16: sys.path only grows, by the directory of the file a step loads, at
\* its end; the directory of every load attempted so far is on it.
C16_SearchPathAppendOnly ==
    /\ [][ \/ sys_path' = sys_path /\ uid' = uid
           \/ /\ uid' = uid + 1
              /\ sys_path' = Append(sys_path, root)
              /\ normpath(root) = dirname(hist'[Len(hist) + 1].path) ]_vars
    /\ [](\A i \in LoadEvents :
             \E k \in DOMAIN sys_path : normpath(sys_path[k]) = dirname(hist[i].path))

\* C16 witness: a later scan attempts a load while the directory of a load
\* of the first scan, another one, is on sys.path before its own.
C16_Witness ==
    \E i, j \in LoadEvents :
       /\ hist[i].scan = 1
       /\ hist[j].scan = 2
       /\ dirname(hist[i].path) # dirname(hist[j].path)
       /\ \E k, l \in DOMAIN sys_path :
             /\ k < l
             /\ normpath(sys_path[k]) = dirname(hist[i].path)
             /\ normpath(sys_path[l]) = dirname(hist[j].path)

\* C17: no step removes a key of the registry, and a step that changes the
\* registry is one that called add_plugin and changed the entry of that
\* plugin's protocol only.
C17_RegistryOnlyGrows ==
    [][ /\ DOMAIN plugin_modules \subseteq DOMAIN plugin_modules'
        /\ plugin_modules' # plugin_modules =>
             /\ Len(hist') > Len(hist)
             /\ LET e == hist'[Len(hist')]
                IN  /\ e.ev = "add_plugin"
                    /\ plugin_modules'[e.plugin.protocol] = e.plugin
                    /\ \A k \in DOMAIN plugin_modules' \ {e.plugin.protocol} :
                          k \in DOMAIN plugin_modules /\ plugin_modules'[k] = plugin_modules[k] ]_vars

\* C17 witness: the registry has two protocols, one of them registered more
\* than once, by a scan and by a direct call.
C17_Witness ==
    /\ Cardinality(DOMAIN plugin_modules) >= 2
    /\ \E i, j \in AddEvents :
          /\ i < j
          /\ hist[i].plugin.protocol = hist[j].plugin.protocol
          /\ hist[i].plugin # hist[j].plugin
          /\ hist[i].scan > 0
          /\ hist[j].scan = 0

\* C18: every add_plugin call of a scan directly follows the load attempt of
\* the file being visited, so there is at most one per visit; it passes the
\* class chosen for a file that loaded; and a file whose chosen class has
\* protocol None is followed by no call, whatever its other classes are.
C18_AtMostOnePerFile ==
    /\ \A i \in AddEvents :
          hist[i].scan > 0 =>
             /\ i > 1
             /\ hist[i - 1].ev = "load"
             /\ hist[i - 1].scan = hist[i].scan
             /\ hist[i - 1].path = hist[i].path
             /\ hist[i - 1].ok => hist[i].plugin = hist[i - 1].plugin
    /\ \A i \in LoadEvents :
          (hist[i].ok /\ hist[i].plugin.protocol = None) =>
             \/ i = Len(hist)
             \/ hist[i + 1].ev = "load"
             \/ hist[i + 1].scan = 0

\* C18 witness: a scan ended after it loaded a file of two classes, chose the
\* one with protocol None and registered nothing for the file, though the
\* other class has a protocol.
C18_Witness ==
    /\ AtReturn
    /\ \E i \in LoadedNow :
          /\ Cardinality(ClassNames(hist[i].path)) = 2
          /\ hist[i].plugin.kind = "plugin"
          /\ hist[i].plugin.protocol = None
          /\ \A j \in AddedNow : hist[j].path # hist[i].path

\* C19: no load is attempted for a file that lies directly in a directory
\* whose name starts with the reserved prefix, a search location included.
C19_NoLoadInReserved ==
    \A i \in LoadEvents :
       ~startswith(hist[i].path[Len(hist[i].path) - 1], ReservedPrefix)

\* C15: two scans from the empty registry over the same locations, the same
\* files and the same order of visits end with the same registry and return
\* the same mapping.
C15_Deterministic ==
    AtReturn => plugin_modules = twin_modules /\ added_plugins = twin_added

====
